---------------------------- MODULE Spec2Model ----------------------------
(***************************************************************************)
(* A model of the ClickUp HTTP wrapper (src/server.js, the governing       *)
(* revision at lines 1-402): the "list tasks" tool, its predicate          *)
(* matchers, its list classifier, and the upstream fetches it issues.      *)
(*                                                                         *)
(* Representation.                                                         *)
(*  - A JavaScript string that the code lowercases or searches is a        *)
(*    sequence of one-character strings, so that toLowerCase() and         *)
(*    includes() are computed and not assumed.  The empty sequence is the  *)
(*    empty string; the code reads every such field through `x || ""` or   *)
(*    `if (x)`, so a missing field and an empty one are the same input.    *)
(*  - Opaque strings (ids, tokens, error texts) are TLA+ strings; "" is    *)
(*    the unset/falsy value.                                               *)
(*  - date_created is a natural number; 0 stands for a missing (falsy)     *)
(*    timestamp, which the code reads through `t.date_created || 0`.       *)
(*  - Pools hold task ids; TaskById gives the task an id denotes.          *)
(***************************************************************************)
EXTENDS Integers, Sequences, FiniteSets, TLC

(***************************************************************************)
(* Bounds of the model.                                                    *)
(***************************************************************************)
\* longest task array one upstream response carries
MaxTasks == 2
\* largest explicit limit= a request carries
MaxLimit == 2

(***************************************************************************)
(* JavaScript string primitives.                                           *)
(***************************************************************************)
UpperChars == <<"A", "B", "C", "D", "E", "F", "G", "H", "I", "J", "K", "L", "M",
                "N", "O", "P", "Q", "R", "S", "T", "U", "V", "W", "X", "Y", "Z">>

LowerChars == <<"a", "b", "c", "d", "e", "f", "g", "h", "i", "j", "k", "l", "m",
                "n", "o", "p", "q", "r", "s", "t", "u", "v", "w", "x", "y", "z">>

Digits == <<"0", "1", "2", "3", "4", "5", "6", "7", "8", "9">>

\* the other characters the strings of the model are written in
OtherChars == <<" ", "-", "&", "[", "]">>

Range(s) == {s[i] : i \in 1..Len(s)}

\* String.prototype.toLowerCase on one character: an upper-case letter maps to the
\* lower-case letter at the same place of the alphabet, any other character to itself
LowerTable ==
    [c \in Range(UpperChars) \cup Range(LowerChars) \cup Range(Digits) \cup Range(OtherChars) |->
        IF \E i \in 1..Len(UpperChars) : UpperChars[i] = c
        THEN LowerChars[CHOOSE i \in 1..Len(UpperChars) : UpperChars[i] = c]
        ELSE c]

LowerChar(c) == LowerTable[c]

\* String.prototype.toLowerCase
ToLowerCase(s) == [i \in 1..Len(s) |-> LowerChar(s[i])]

\* String.prototype.includes
Includes(s, sub) ==
    \E i \in 0..(Len(s) - Len(sub)) : SubSeq(s, i + 1, i + Len(sub)) = sub

\* Number.prototype.toString for a non-negative integer
RECURSIVE NumberToString(_)
NumberToString(n) ==
    IF n < 10 THEN <<Digits[n + 1]>>
    ELSE NumberToString(n \div 10) \o <<Digits[(n % 10) + 1]>>

DigitValue(c) == (CHOOSE i \in 1..Len(Digits) : Digits[i] = c) - 1

\* parseInt(s, 10) for a string of decimal digits (the limit= values drawn here)
RECURSIVE ParseInt(_)
ParseInt(s) ==
    IF s = <<>> THEN 0
    ELSE 10 * ParseInt(SubSeq(s, 1, Len(s) - 1)) + DigitValue(s[Len(s)])

Min(a, b) == IF a < b THEN a ELSE b

\* Slice keeping one element too many
Slice_OffByOne(arr, end) == SubSeq(arr, 1, Min(end + 1, Len(arr)))

\* Array.prototype.slice(0, end) for end >= 0
Slice(arr, end) == SubSeq(arr, 1, Min(end, Len(arr)))

(***************************************************************************)
(* Custom-field values: a plain string, a number, a structured object      *)
(* exposing label and/or name, or no value at all.                         *)
(***************************************************************************)
NoValue == [kind |-> "undefined", s |-> <<>>, n |-> 0, label |-> <<>>, name |-> <<>>]

StringValue(str) == [kind |-> "string", s |-> str, n |-> 0, label |-> <<>>, name |-> <<>>]

NumberValue(num) == [kind |-> "number", s |-> <<>>, n |-> num, label |-> <<>>, name |-> <<>>]

ObjectValue(l, nm) == [kind |-> "object", s |-> <<>>, n |-> 0, label |-> l, name |-> nm]

\* JavaScript truthiness of a custom-field value
Truthy(v) ==
    CASE v.kind = "string" -> v.s # <<>>
      [] v.kind = "number" -> v.n # 0
      [] v.kind = "object" -> TRUE
      [] OTHER -> FALSE

\* value.toString()
ValueToString(v) ==
    CASE v.kind = "string" -> v.s
      [] v.kind = "number" -> NumberToString(v.n)
      [] v.kind = "object" ->
           <<"[", "o", "b", "j", "e", "c", "t", " ", "O", "b", "j", "e", "c", "t", "]">>
      [] OTHER -> <<>>


(***************************************************************************)
(* The upstream data the fetches can return: five tasks shaped as section  *)
(* 3 of the specification describes, chosen so that every branch of the    *)
(* classifier and of the three matchers is taken by some task.             *)
(***************************************************************************)
\* the list the environment variable CLICKUP_INVOICING_LIST_ID names
InvoicingListId == "inv9"

NoList == [has |-> FALSE, id |-> "", name |-> <<>>]

List(i, nm) == [has |-> TRUE, id |-> i, name |-> nm]

CustomField(nm, v) == [name |-> nm, value |-> v]

\* "Kitchen Job": a plain Job Number field, in a list whose name only starts like a
\* catalog entry
Task1 ==
    [id |-> 1,
     name |-> <<"K", "i", "t", "c", "h", "e", "n", " ", "J", "o", "b">>,
     text_content |-> <<>>,
     list |-> List("l7", <<"D", "e", "s", "i", "g", "n", " ", "-", " ", "W", "o", "r", "k",
                           " ", "i", "n", " ", "p", "r", "o", "g", "r", "e", "s", "s",
                           " ", "2">>),
     date_created |-> 2,
     custom_fields |->
        <<CustomField(<<"J", "o", "b", " ", "N", "u", "m", "b", "e", "r">>,
                      StringValue(<<"4", "8", "2", "1">>)),
          CustomField(<<"S", "e", "c", "t", "o", "r">>,
                      StringValue(<<"R", "e", "t", "a", "i", "l">>))>>]

\* "Invoice 4821" in the invoicing list, same timestamp as Task1
Task2 ==
    [id |-> 2,
     name |-> <<"I", "n", "v", "o", "i", "c", "e", " ", "4", "8", "2", "1">>,
     text_content |-> <<"k", "i", "t", "c", "h", "e", "n">>,
     list |-> List(InvoicingListId, <<"I", "n", "v", "o", "i", "c", "i", "n", "g">>),
     date_created |-> 2,
     custom_fields |->
        <<CustomField(<<"S", "e", "c", "t", "o", "r">>,
                      StringValue(<<"R", "e", "t", "a", "i", "l">>))>>]

\* "Bath" in "Design - Work in progress"; no timestamp; a structured Job Number field
Task3 ==
    [id |-> 3,
     name |-> <<"B", "a", "t", "h">>,
     text_content |-> <<>>,
     list |-> List("l3", <<"D", "e", "s", "i", "g", "n", " ", "-", " ", "W", "o", "r", "k",
                           " ", "i", "n", " ", "p", "r", "o", "g", "r", "e", "s", "s">>),
     date_created |-> 0,
     custom_fields |->
        <<CustomField(<<"J", "o", "b", " ", "N", "u", "m", "b", "e", "r">>,
                      ObjectValue(<<"J", "N", "-", "4", "8", "2", "1">>, <<>>)),
          CustomField(<<"S", "e", "c", "t", "o", "r">>,
                      StringValue(<<"R", "e", "t", "a", "i", "l">>))>>]

\* "Kitchen refit" in "sales - confirmed orders", the newest task
Task4 ==
    [id |-> 4,
     name |-> <<"K", "i", "t", "c", "h", "e", "n", " ", "r", "e", "f", "i", "t">>,
     text_content |-> <<>>,
     list |-> List("l2", <<"s", "a", "l", "e", "s", " ", "-", " ", "c", "o", "n", "f", "i",
                           "r", "m", "e", "d", " ", "o", "r", "d", "e", "r", "s">>),
     date_created |-> 3,
     custom_fields |->
        <<CustomField(<<"S", "e", "c", "t", "o", "r">>,
                      StringValue(<<"T", "r", "a", "d", "e">>))>>]

\* "Loft" with no list and no timestamp; the description carries the job number;
\* a custom field with a name and no value
Task5 ==
    [id |-> 5,
     name |-> <<"L", "o", "f", "t">>,
     text_content |-> <<"K", "I", "T", "C", "H", "E", "N", " ", "4", "8", "2", "1">>,
     list |-> NoList,
     date_created |-> 0,
     custom_fields |->
        <<CustomField(<<"K", "i", "t", "c", "h", "e", "n">>, NoValue)>>]

TaskById == <<Task1, Task2, Task3, Task4, Task5>>

TaskIds == 1..Len(TaskById)

\* the task arrays one upstream response can carry: each task at most once
TaskArrays ==
    UNION {{a \in [1..n -> TaskIds] : \A i, j \in 1..n : a[i] = a[j] => i = j} :
           n \in 0..MaxTasks}

(***************************************************************************)
(* Predicate matchers and the list classifier.                             *)
(***************************************************************************)
\* matchesJobNumber looking into every custom field, whatever its name
matchesJobNumber_AnyField(task, jobNumber) ==
    IF jobNumber = <<>> THEN FALSE
    ELSE
      LET j == ToLowerCase(jobNumber)
          cfs == task.custom_fields
          FieldMatches(cf) ==
              LET v == cf.value
              IN  \/ /\ v.kind \in {"string", "number"}
                     /\ Includes(ToLowerCase(ValueToString(v)), j)
                  \/ /\ v.kind = "object"
                     /\ \/ v.label # <<>> /\ Includes(ToLowerCase(v.label), j)
                        \/ v.name # <<>> /\ Includes(ToLowerCase(v.name), j)
      IN  \/ Includes(ToLowerCase(task.name), j)
          \/ Includes(ToLowerCase(task.text_content), j)
          \/ \E i \in 1..Len(cfs) : FieldMatches(cfs[i])

\* server.js:144-168
matchesJobNumber(task, jobNumber) ==
    IF jobNumber = <<>> THEN FALSE
    ELSE
      LET j == ToLowerCase(jobNumber)
          cfs == task.custom_fields
          FieldMatches(cf) ==
              LET name == ToLowerCase(cf.name)
                  v == cf.value
              IN  /\ Includes(name, <<"j", "o", "b", " ", "n", "u", "m", "b", "e", "r">>)
                  /\ \/ /\ v.kind \in {"string", "number"}
                        /\ LET val == ToLowerCase(ValueToString(v))
                           IN  val = j \/ Includes(val, j)
                     \/ /\ v.kind = "object"
                        /\ \/ v.label # <<>> /\ Includes(ToLowerCase(v.label), j)
                           \/ v.name # <<>> /\ Includes(ToLowerCase(v.name), j)
      IN  \/ Includes(ToLowerCase(task.name), j)
          \/ Includes(ToLowerCase(task.text_content), j)
          \/ \E i \in 1..Len(cfs) : FieldMatches(cfs[i])

\* server.js:181-187
ACTIVE_LISTS ==
    <<
      <<"s", "a", "l", "e", "s", " ", "-", " ", "e", "n", "q", "u", "i", "r", "i", "e", "s",
        " ", "&", " ", "q", "u", "o", "t", "a", "t", "i", "o", "n", "s">>,
      <<"s", "a", "l", "e", "s", " ", "-", " ", "c", "o", "n", "f", "i", "r", "m", "e", "d",
        " ", "o", "r", "d", "e", "r", "s">>,
      <<"d", "e", "s", "i", "g", "n", " ", "-", " ", "w", "o", "r", "k", " ", "i", "n", " ",
        "p", "r", "o", "g", "r", "e", "s", "s">>,
      <<"p", "r", "o", "d", "u", "c", "t", "i", "o", "n", " ", "-", " ", "w", "o", "r", "k",
        " ", "i", "n", " ", "p", "r", "o", "g", "r", "e", "s", "s">>,
      <<"f", "i", "t", "t", "i", "n", "g", " ", "-", " ", "w", "o", "r", "k", " ", "i", "n",
        " ", "p", "r", "o", "g", "r", "e", "s", "s">>
    >>

\* Array.prototype.includes
ArrayIncludes(arr, x) == \E i \in 1..Len(arr) : arr[i] = x

\* IsActiveList comparing the list name as it is spelled
IsActiveList_CaseSensitive(t) ==
    ArrayIncludes(ACTIVE_LISTS, IF t.list.has THEN t.list.name ELSE <<>>)

\* the filter callback of server.js:243-246
IsActiveList(t) ==
    LET listName == ToLowerCase(IF t.list.has THEN t.list.name ELSE <<>>)
    IN  ArrayIncludes(ACTIVE_LISTS, listName)

\* StartingSet never classifying
StartingSet_Unclassified(tasks, job_number) == tasks

\* StartingSet classifying also when a job number is given
StartingSet_AlwaysClassified(tasks, job_number) ==
    SelectSeq(tasks, LAMBDA id : IsActiveList(TaskById[id]))

\* server.js:238-247: the starting set of the active pool
StartingSet(tasks, job_number) ==
    IF job_number # <<>> THEN tasks
    ELSE SelectSeq(tasks, LAMBDA id : IsActiveList(TaskById[id]))

\* the filter callback of server.js:252-260
MatchesSearch(t, search) ==
    LET s == ToLowerCase(search)
        cfs == t.custom_fields
        CustomMatch(cf) ==
            LET val == ToLowerCase(IF Truthy(cf.value) THEN ValueToString(cf.value)
                                   ELSE cf.name)
            IN  Includes(val, s)
    IN  \/ Includes(ToLowerCase(t.name), s)
        \/ Includes(ToLowerCase(t.text_content), s)
        \/ \E i \in 1..Len(cfs) : CustomMatch(cfs[i])

\* the filter callback of server.js:266-272 (and of 311-317)
MatchesSector(t, sector) ==
    LET s == ToLowerCase(sector)
        cfs == t.custom_fields
    IN  \E i \in 1..Len(cfs) :
            LET name == ToLowerCase(cfs[i].name)
                val == ToLowerCase(IF Truthy(cfs[i].value) THEN ValueToString(cfs[i].value)
                                   ELSE <<>>)
            IN  Includes(name, <<"s", "e", "c", "t", "o", "r">>) /\ Includes(val, s)

\* sortByCreatedDesc leaving the array as it came
sortByCreatedDesc_Unsorted(arr) == arr

\* sortByCreatedDesc placing each element before the earlier elements of equal timestamp
RECURSIVE sortByCreatedDesc_Unstable(_)
sortByCreatedDesc_Unstable(arr) ==
    IF arr = <<>> THEN <<>>
    ELSE
      LET front == sortByCreatedDesc_Unstable(SubSeq(arr, 1, Len(arr) - 1))
          x == arr[Len(arr)]
          k == Cardinality({i \in 1..Len(front) :
                   TaskById[front[i]].date_created > TaskById[x].date_created})
      IN  SubSeq(front, 1, k) \o <<x>> \o SubSeq(front, k + 1, Len(front))

\* server.js:235-236: Array.prototype.sort is stable, so sorting by
\* Number(b.date_created || 0) - Number(a.date_created || 0) is a stable insertion of
\* each element after the elements that are at least as new
RECURSIVE sortByCreatedDesc(_)
sortByCreatedDesc(arr) ==
    IF arr = <<>> THEN <<>>
    ELSE
      LET front == sortByCreatedDesc(SubSeq(arr, 1, Len(arr) - 1))
          x == arr[Len(arr)]
          k == Cardinality({i \in 1..Len(front) :
                   TaskById[front[i]].date_created >= TaskById[x].date_created})
      IN  SubSeq(front, 1, k) \o <<x>> \o SubSeq(front, k + 1, Len(front))

(***************************************************************************)
(* The list-tasks handler, GET /tools/clickup_list_tasks                   *)
(* (server.js:171-355).                                                    *)
(***************************************************************************)
VARIABLES
    env,        \* the process environment read at server.js:8-11
    req,        \* req.query of the request being handled
    pc,         \* where the handler is: idle, primary, invoicing, done
    cuRes,      \* what the primary fetch came back with
    tasks,      \* data.tasks of the primary fetch
    starting,   \* the starting set chosen at server.js:238-247
    active,     \* the active pool after the local filters and the sort
    invRes,     \* what the invoicing fetch came back with
    invoicing,  \* the invoicing pool
    calls,      \* the upstream requests the handler has issued, in order
    responses,  \* the responses the handler has written, in order
    match,      \* one call of matchesJobNumber: its arguments and what it returned
    MCP_BEARER, \* the bearer token read at server.js:8, empty when unset
    http        \* the inbound request on its way through the middleware and the router

vars == <<env, req, pc, cuRes, tasks, starting, active, invRes, invoicing, calls, responses,
          match, MCP_BEARER, http>>

\* the values process.env can hold for the three variables the handler reads
Environments ==
    [CLICKUP_API_TOKEN : {"", "pk_1"},
     CLICKUP_WORKSPACE_ID : {"", "team1"},
     CLICKUP_INVOICING_LIST_ID : {"", InvoicingListId}]

\* the limit= strings a request can carry: none, or a decimal integer
LimitStrings == {<<>>} \cup {NumberToString(n) : n \in 0..MaxLimit}

\* the query strings a request can carry
Queries ==
    [search : {<<>>, <<"K", "i", "t">>},
     list_id : {"", "901"},
     sector : {<<>>, <<"R", "E", "T", "A", "I", "L">>},
     job_number : {<<>>, <<"4", "8", "2", "1">>},
     include_invoicing : {"", "true", "false"},
     limit : LimitStrings]

NoQuery ==
    [search |-> <<>>, list_id |-> "", sector |-> <<>>, job_number |-> <<>>,
     include_invoicing |-> "", limit |-> <<>>]

\* a non-2xx upstream response: its status and its body text
UpstreamFailures ==
    {[status |-> 401, text |-> "Token invalid"], [status |-> 500, text |-> "Oops"]}

\* the ways an awaited fetch ends: not yet, a 2xx response carrying a task array, a
\* non-2xx response carrying a status and a body text, or a thrown error
Pending == [outcome |-> "pending", status |-> 0, text |-> "", tasks |-> <<>>]

Ok(ts) == [outcome |-> "ok", status |-> 200, text |-> "", tasks |-> ts]

NotOk(f) == [outcome |-> "notok", status |-> f.status, text |-> f.text, tasks |-> <<>>]

Thrown(message) == [outcome |-> "thrown", status |-> 0, text |-> message, tasks |-> <<>>]

\* server.js:178
includeInvoicing(q) == q.include_invoicing = "true"

\* server.js:179; the default "40" is parsed like any other value
limit(q) == ParseInt(IF q.limit # <<>> THEN q.limit ELSE <<"4", "0">>)

\* SearchParam sending the search term only, never the job number
SearchParam_SearchOnly(q) == q.search

\* server.js:198-202, 215-219, 293-297: the upstream search term
SearchParam(q) ==
    IF q.search # <<>> THEN q.search
    ELSE IF q.job_number # <<>> THEN q.job_number
    ELSE <<>>

\* server.js:191-221: the url of the primary fetch
PrimaryCall(q, e) ==
    IF q.list_id # ""
    THEN [scope |-> "list", id |-> q.list_id, include_closed |-> "", page |-> "",
          limit |-> "", search |-> SearchParam(q), Authorization |-> e.CLICKUP_API_TOKEN]
    ELSE [scope |-> "team", id |-> e.CLICKUP_WORKSPACE_ID, include_closed |-> "false",
          page |-> "", limit |-> "", search |-> SearchParam(q),
          Authorization |-> e.CLICKUP_API_TOKEN]

\* server.js:285-302: the url of the invoicing fetch
InvoicingCall(q, e) ==
    [scope |-> "list", id |-> e.CLICKUP_INVOICING_LIST_ID, include_closed |-> "",
     page |-> "0", limit |-> "100", search |-> SearchParam(q),
     Authorization |-> e.CLICKUP_API_TOKEN]

\* server.js:249-261
SearchFilter(pool, q) ==
    IF q.search # <<>>
    THEN SelectSeq(pool, LAMBDA id : MatchesSearch(TaskById[id], q.search))
    ELSE pool

\* server.js:263-273 and 309-318
SectorFilter(pool, q) ==
    IF q.sector # <<>>
    THEN SelectSeq(pool, LAMBDA id : MatchesSector(TaskById[id], q.sector))
    ELSE pool

\* server.js:275-278 and 320-322
JobNumberFilter(pool, q) ==
    IF q.job_number # <<>>
    THEN SelectSeq(pool, LAMBDA id : matchesJobNumber(TaskById[id], q.job_number))
    ELSE pool

\* ActivePool without the sector filter
ActivePool_NoSectorFilter(start, q) ==
    sortByCreatedDesc(JobNumberFilter(SearchFilter(start, q), q))

\* server.js:249-280: the active pool from its starting set
ActivePool(start, q) ==
    sortByCreatedDesc(JobNumberFilter(SectorFilter(SearchFilter(start, q), q), q))

\* server.js:309-324: the invoicing pool from what the invoicing fetch returned
InvoicingPool(fetched, q) ==
    sortByCreatedDesc(JobNumberFilter(SectorFilter(fetched, q), q))

\* server.js:283-284 and 328: whether the invoicing branch is taken
InvoicingWanted(q, e) == includeInvoicing(q) /\ e.CLICKUP_INVOICING_LIST_ID # ""

\* Combined leaving out the invoicing tasks that are already in the active pool
Combined_Deduplicated(act, inv, q, e) ==
    IF InvoicingWanted(q, e)
    THEN act \o SelectSeq(inv, LAMBDA id : \A i \in 1..Len(act) : act[i] # id)
    ELSE act

\* server.js:327-330
Combined(act, inv, q, e) ==
    IF InvoicingWanted(q, e) THEN act \o inv ELSE act

\* server.js:334-342: the projection of a task to a result item (url and status are
\* copied through and carry no behaviour; they are left out of the task shape)
Item(t) ==
    [id |-> t.id,
     name |-> t.name,
     list |-> [null |-> ~t.list.has, name |-> IF t.list.has THEN t.list.name ELSE <<>>],
     custom_fields |-> t.custom_fields,
     date_created |-> t.date_created]

\* server.js:332-350: the success response
ResultEnvelope(act, inv, q, e) ==
    LET combined == Combined(act, inv, q, e)
        limited == Slice(combined, limit(q))
        items == [i \in 1..Len(limited) |-> Item(TaskById[limited[i]])]
    IN  [status |-> 200,
         body |-> [items |-> items,
                   total_returned |-> Len(items),
                   active_count |-> Len(act),
                   invoicing_count |-> Len(inv),
                   invoicing_included |-> includeInvoicing(q)]]

\* res.status(code).json({ error }) and res.status(code).json({ error, details })
ErrorEnvelope(code, error) == [status |-> code, body |-> [error |-> error]]

ErrorDetails(code, error, details) ==
    [status |-> code, body |-> [error |-> error, details |-> details]]

\* the messages of the errors a rejected fetch or an unparsable body throws
ErrorMessages == {"fetch failed", "invalid json response body"}

\* `Bearer ${MCP_BEARER}` (server.js:20)
BearerHeader(token) == <<"B", "e", "a", "r", "e", "r", " ">> \o token

\* Authorized letting through every header that starts with "Bearer "
Authorized_AnyBearer(token, path, authorization) ==
    \/ path = "/health"
    \/ token = <<>>
    \/ /\ Len(authorization) >= 7
       /\ SubSeq(authorization, 1, 7) = BearerHeader(<<>>)

\* server.js:16-21: the auth middleware calls next(); authorization is
\* req.headers.authorization || ""
Authorized(token, path, authorization) ==
    \/ path = "/health"
    \/ token = <<>>
    \/ authorization = BearerHeader(token)

\* no inbound request is on its way
NoHttp == [stage |-> "none", path |-> "", authorization |-> <<>>, res |-> <<>>]

\* no call of matchesJobNumber is being followed
NoCall == [pc |-> "none", task |-> Task1, jobNumber |-> <<>>, result |-> FALSE]

Init ==
    /\ env \in Environments
    /\ req = NoQuery
    /\ pc = "idle"
    /\ cuRes = Pending
    /\ invRes = Pending
    /\ tasks = <<>>
    /\ starting = <<>>
    /\ active = <<>>
    /\ invoicing = <<>>
    /\ calls = <<>>
    /\ responses = <<>>
    /\ match = NoCall
    /\ MCP_BEARER = <<>>
    /\ http = NoHttp

\* Request issuing the workspace-wide fetch without looking at CLICKUP_WORKSPACE_ID
Request_UncheckedWorkspace(q) ==
    /\ pc = "idle"
    /\ req' = q
    /\ IF env.CLICKUP_API_TOKEN = ""
       THEN /\ responses' = Append(responses, ErrorEnvelope(500, "CLICKUP_API_TOKEN not set"))
            /\ pc' = "done"
            /\ calls' = calls
       ELSE /\ calls' = Append(calls, PrimaryCall(q, env))
            /\ pc' = "primary"
            /\ responses' = responses
    /\ UNCHANGED <<env, cuRes, tasks, starting, active, invRes, invoicing, match,
                   MCP_BEARER, http>>

\* Request issuing the invoicing fetch together with the primary fetch
Request_BothFetches(q) ==
    /\ pc = "idle"
    /\ req' = q
    /\ IF env.CLICKUP_API_TOKEN = ""
       THEN /\ responses' = Append(responses, ErrorEnvelope(500, "CLICKUP_API_TOKEN not set"))
            /\ pc' = "done"
            /\ calls' = calls
       ELSE IF q.list_id = "" /\ env.CLICKUP_WORKSPACE_ID = ""
       THEN /\ responses' =
                   Append(responses, ErrorEnvelope(500, "CLICKUP_WORKSPACE_ID not set"))
            /\ pc' = "done"
            /\ calls' = calls
       ELSE /\ calls' = IF InvoicingWanted(q, env)
                        THEN <<PrimaryCall(q, env), InvoicingCall(q, env)>>
                        ELSE <<PrimaryCall(q, env)>>
            /\ pc' = "primary"
            /\ responses' = responses
    /\ UNCHANGED <<env, cuRes, tasks, starting, active, invRes, invoicing, match,
                   MCP_BEARER, http>>

\* server.js:171-225: a request arrives; the handler checks the configuration and
\* issues the primary fetch
Request(q) ==
    /\ pc = "idle"
    /\ req' = q
    /\ IF env.CLICKUP_API_TOKEN = ""
       THEN /\ responses' = Append(responses, ErrorEnvelope(500, "CLICKUP_API_TOKEN not set"))
            /\ pc' = "done"
            /\ calls' = calls
       ELSE IF q.list_id = "" /\ env.CLICKUP_WORKSPACE_ID = ""
       THEN /\ responses' =
                   Append(responses, ErrorEnvelope(500, "CLICKUP_WORKSPACE_ID not set"))
            /\ pc' = "done"
            /\ calls' = calls
       ELSE /\ calls' = Append(calls, PrimaryCall(q, env))
            /\ pc' = "primary"
            /\ responses' = responses
    /\ UNCHANGED <<env, cuRes, tasks, starting, active, invRes, invoicing, match,
                   MCP_BEARER, http>>

\* server.js:351-354 after 223 or 232: the primary fetch rejects, or its 2xx body does
\* not parse
PrimaryThrows(message) ==
    /\ pc = "primary"
    /\ cuRes' = Thrown(message)
    /\ responses' = Append(responses, ErrorDetails(500, "Server error", message))
    /\ pc' = "done"
    /\ UNCHANGED <<env, req, tasks, starting, active, invRes, invoicing, calls, match,
                   MCP_BEARER, http>>

\* PrimaryNotOk answering with the generic server error
PrimaryNotOk_Generic(f) ==
    /\ pc = "primary"
    /\ cuRes' = NotOk(f)
    /\ responses' = Append(responses, ErrorDetails(500, "Server error", cuRes'.text))
    /\ pc' = "done"
    /\ UNCHANGED <<env, req, tasks, starting, active, invRes, invoicing, calls, match,
                   MCP_BEARER, http>>

\* server.js:227-230: the primary fetch answers with a non-2xx status
PrimaryNotOk(f) ==
    /\ pc = "primary"
    /\ cuRes' = NotOk(f)
    /\ responses' = Append(responses, ErrorDetails(cuRes'.status, "ClickUp error", cuRes'.text))
    /\ pc' = "done"
    /\ UNCHANGED <<env, req, tasks, starting, active, invRes, invoicing, calls, match,
                   MCP_BEARER, http>>

\* server.js:232-302, and 327-350 when the invoicing branch is not taken: the primary
\* fetch answers 2xx with the task array ts
PrimaryOk(ts) ==
    /\ pc = "primary"
    /\ cuRes' = Ok(ts)
    /\ tasks' = cuRes'.tasks
    /\ starting' = StartingSet(ts, req.job_number)
    /\ active' = ActivePool(starting', req)
    /\ invoicing' = <<>>
    /\ IF InvoicingWanted(req, env)
       THEN /\ calls' = Append(calls, InvoicingCall(req, env))
            /\ pc' = "invoicing"
            /\ responses' = responses
       ELSE /\ responses' = Append(responses, ResultEnvelope(active', <<>>, req, env))
            /\ pc' = "done"
            /\ calls' = calls
    /\ UNCHANGED <<env, req, invRes, match,
                   MCP_BEARER, http>>

\* InvoicingThrows with nothing catching the error: no response is written
InvoicingThrows_Uncaught(message) ==
    /\ pc = "invoicing"
    /\ invRes' = Thrown(message)
    /\ pc' = "done"
    /\ UNCHANGED <<env, req, cuRes, tasks, starting, active, invoicing, calls, responses,
                   match, MCP_BEARER, http>>

\* server.js:351-354 after 299 or 305: the invoicing fetch rejects, or its 2xx body does
\* not parse
InvoicingThrows(message) ==
    /\ pc = "invoicing"
    /\ invRes' = Thrown(message)
    /\ responses' = Append(responses, ErrorDetails(500, "Server error", message))
    /\ pc' = "done"
    /\ UNCHANGED <<env, req, cuRes, tasks, starting, active, invoicing, calls, match,
                   MCP_BEARER, http>>

\* server.js:304-350 with invRes.ok false: the invoicing pool stays empty
InvoicingNotOk(f) ==
    /\ pc = "invoicing"
    /\ invRes' = NotOk(f)
    /\ invoicing' = InvoicingPool(<<>>, req)
    /\ responses' = Append(responses, ResultEnvelope(active, invoicing', req, env))
    /\ pc' = "done"
    /\ UNCHANGED <<env, req, cuRes, tasks, starting, active, calls, match,
                   MCP_BEARER, http>>

\* server.js:304-350 with invRes.ok true: the invoicing fetch answers with ts
InvoicingOk(ts) ==
    /\ pc = "invoicing"
    /\ invRes' = Ok(ts)
    /\ invoicing' = InvoicingPool(invRes'.tasks, req)
    /\ responses' = Append(responses, ResultEnvelope(active, invoicing', req, env))
    /\ pc' = "done"
    /\ UNCHANGED <<env, req, cuRes, tasks, starting, active, calls, match,
                   MCP_BEARER, http>>

\* the handler has returned; its locals are gone and the server waits for a request
Return ==
    /\ pc = "done"
    /\ pc' = "idle"
    /\ req' = NoQuery
    /\ cuRes' = Pending
    /\ invRes' = Pending
    /\ tasks' = <<>>
    /\ starting' = <<>>
    /\ active' = <<>>
    /\ invoicing' = <<>>
    /\ calls' = <<>>
    /\ responses' = <<>>
    /\ UNCHANGED <<env, match,
                   MCP_BEARER, http>>

Next ==
    \/ \E q \in Queries : Request(q)
    \/ \E m \in ErrorMessages : PrimaryThrows(m)
    \/ \E f \in UpstreamFailures : PrimaryNotOk(f)
    \/ \E ts \in TaskArrays : PrimaryOk(ts)
    \/ \E m \in ErrorMessages : InvoicingThrows(m)
    \/ \E f \in UpstreamFailures : InvoicingNotOk(f)
    \/ \E ts \in TaskArrays : InvoicingOk(ts)
    \/ Return

Spec == Init /\ [][Next]_vars

(***************************************************************************)
(* matchesJobNumber on its own: one call with arguments drawn from the     *)
(* shapes section 3 of the specification allows.  The handler calls it     *)
(* only under `if (job_number)` (server.js:276, 320), so the job number    *)
(* is never empty.                                                         *)
(***************************************************************************)
\* longest custom_fields array of a task handed to the matcher
MaxFields == 1

MatchFieldNames ==
    {<<"J", "o", "b", " ", "N", "u", "m", "b", "e", "r">>,
     <<"R", "e", "f", " ", "J", "O", "B", " ", "N", "U", "M", "B", "E", "R">>,
     <<"J", "o", "b", " ", "N", "o">>,
     <<"S", "e", "c", "t", "o", "r">>}

MatchFieldValues ==
    {NoValue,
     StringValue(<<"A", "1">>),
     StringValue(<<"x", "a", "1", "y">>),
     StringValue(<<"b", "2">>),
     NumberValue(120),
     ObjectValue(<<"A", "1">>, <<>>),
     ObjectValue(<<>>, <<"x", "A", "1">>),
     ObjectValue(<<"b", "2">>, <<"b", "2">>)}

MatchFields == [name : MatchFieldNames, value : MatchFieldValues]

MatchTasks ==
    [name : {<<>>, <<"F", "i", "t", " ", "A", "1">>, <<"B", "a", "t", "h">>},
     text_content : {<<>>, <<"r", "e", "f", " ", "1", "2", "a">>},
     custom_fields : UNION {[1..n -> MatchFields] : n \in 0..MaxFields}]

MatchJobNumbers == {<<"a", "1">>, <<"A", "1">>, <<"1", "2">>}

InitMatch ==
    /\ env \in {e \in Environments : e.CLICKUP_API_TOKEN # "" /\ e.CLICKUP_WORKSPACE_ID # ""
                                     /\ e.CLICKUP_INVOICING_LIST_ID # ""}
    /\ req = NoQuery
    /\ pc = "idle"
    /\ cuRes = Pending
    /\ invRes = Pending
    /\ tasks = <<>>
    /\ starting = <<>>
    /\ active = <<>>
    /\ invoicing = <<>>
    /\ calls = <<>>
    /\ responses = <<>>
    /\ match \in [pc : {"called"}, task : MatchTasks, jobNumber : MatchJobNumbers,
                  result : {FALSE}]
    /\ MCP_BEARER = <<>>
    /\ http = NoHttp

\* server.js:144-168: the call returns
MatcherReturns ==
    /\ match.pc = "called"
    /\ match' = [match EXCEPT !.pc = "returned",
                              !.result = matchesJobNumber(match.task, match.jobNumber)]
    /\ UNCHANGED <<env, req, pc, cuRes, tasks, starting, active, invRes, invoicing, calls,
                   responses, MCP_BEARER, http>>

NextMatch == MatcherReturns

SpecMatch == InitMatch /\ [][NextMatch]_vars

(***************************************************************************)
(* The auth middleware and the router in front of the handlers             *)
(* (server.js:15-35): an inbound request passes the middleware, which      *)
(* answers 401 or calls next(), and is then dispatched by its path.        *)
(***************************************************************************)
\* the bearer tokens MCP_BEARER can hold, unset included
BearerTokens == {<<>>, <<"s", "3">>}

\* the paths of the inbound requests
Paths == {"/health", "/tools", "/tools/clickup_list_tasks"}

\* the Authorization headers of the inbound requests: none, the configured token behind
\* "Bearer ", the token alone, a lowercase scheme, a longer token, another token
AuthorizationHeaders ==
    {<<>>,
     BearerHeader(<<"s", "3">>),
     <<"s", "3">>,
     <<"b", "e", "a", "r", "e", "r", " ", "s", "3">>,
     BearerHeader(<<"s", "3", "x">>),
     BearerHeader(<<"s", "4">>)}

InitAuth ==
    /\ env \in Environments
    /\ req = NoQuery
    /\ pc = "idle"
    /\ cuRes = Pending
    /\ invRes = Pending
    /\ tasks = <<>>
    /\ starting = <<>>
    /\ active = <<>>
    /\ invoicing = <<>>
    /\ calls = <<>>
    /\ responses = <<>>
    /\ match = NoCall
    /\ MCP_BEARER \in BearerTokens
    /\ http = NoHttp

\* server.js:16-22: the middleware lets the request through or answers 401
Middleware(path, authorization) ==
    /\ http.stage = "none"
    /\ IF Authorized(MCP_BEARER, path, authorization)
       THEN http' = [stage |-> "next", path |-> path, authorization |-> authorization,
                     res |-> <<>>]
       ELSE http' = [stage |-> "answered", path |-> path, authorization |-> authorization,
                     res |-> <<[status |-> 401, body |-> [error |-> "Unauthorized"]]>>]
    /\ UNCHANGED <<env, req, pc, cuRes, tasks, starting, active, invRes, invoicing, calls,
                   responses, match, MCP_BEARER>>

\* server.js:25-27: the health check
Health ==
    /\ http.stage = "next"
    /\ http.path = "/health"
    /\ http' = [http EXCEPT !.stage = "answered",
                            !.res = <<[status |-> 200, body |-> [ok |-> TRUE]]>>]
    /\ UNCHANGED <<env, req, pc, cuRes, tasks, starting, active, invRes, invoicing, calls,
                   responses, match, MCP_BEARER>>

\* server.js:30-35: the list of tools
Tools ==
    /\ http.stage = "next"
    /\ http.path = "/tools"
    /\ http' = [http EXCEPT !.stage = "answered",
                            !.res = <<[status |-> 200,
                                       body |-> [tools |-> <<"clickup_list_tasks",
                                                             "clickup_get_task">>]]>>]
    /\ UNCHANGED <<env, req, pc, cuRes, tasks, starting, active, invRes, invoicing, calls,
                   responses, match, MCP_BEARER>>

\* server.js:171: the router hands the request to the list-tasks handler
ListTasks(q) ==
    /\ http.stage = "next"
    /\ http.path = "/tools/clickup_list_tasks"
    /\ Request(q)

NextAuth ==
    \/ \E p \in Paths, a \in AuthorizationHeaders : Middleware(p, a)
    \/ Health
    \/ Tools
    \/ \E q \in Queries : ListTasks(q)

SpecAuth == InitAuth /\ [][NextAuth]_vars

(***************************************************************************)
(* Properties.                                                             *)
(***************************************************************************)
\* the handler has answered with a result envelope
Succeeded ==
    /\ pc = "done"
    /\ Len(responses) = 1
    /\ "items" \in DOMAIN responses[1].body

Result == responses[1].body

\* the task the i-th result item is the projection of
ItemTask(i) == TaskById[Result.items[i].id]

InPool(id, pool) == \E i \in 1..Len(pool) : pool[i] = id

\* two strings are equal up to the case of their letters
EqIgnoreCase(a, b) ==
    /\ Len(a) = Len(b)
    /\ \A i \in 1..Len(a) :
          \/ a[i] = b[i]
          \/ \E k \in 1..Len(UpperChars) : {a[i], b[i]} = {UpperChars[k], LowerChars[k]}

\* sub occurs in s, up to the case of the letters
ContainsIgnoreCase(s, sub) ==
    \E i \in 0..(Len(s) - Len(sub)) : EqIgnoreCase(SubSeq(s, i + 1, i + Len(sub)), sub)

\* the list name is one of the five catalog entries, up to case
InCatalog(t) ==
    /\ t.list.has
    /\ \E k \in 1..Len(ACTIVE_LISTS) : EqIgnoreCase(t.list.name, ACTIVE_LISTS[k])

InInvoicingList(t) == t.list.has /\ t.list.id = InvoicingListId

\* C1 as stated: when include_invoicing is not "true", no item of a success response
\* is owned by the invoicing list, whatever the other parameters are.
C1_NoInvoicingItems ==
    (Succeeded /\ req.include_invoicing # "true")
        => \A i \in 1..Len(Result.items) : ~InInvoicingList(ItemTask(i))

\* C1 as amended: when include_invoicing is not "true" and job_number is absent, no item
\* of a success response is owned by the invoicing list (whose name is not a catalog
\* entry), whatever search, sector, list_id and limit are and whatever the primary
\* fetch returns.
C1_NoInvoicingItemsWithoutJobNumber ==
    (Succeeded /\ req.include_invoicing # "true" /\ req.job_number = <<>>)
        => \A i \in 1..Len(Result.items) : ~InInvoicingList(ItemTask(i))

\* the primary fetch returned a task of the invoicing list that matches the search and
\* the sector of a request without include_invoicing and without job_number
C1_Witness ==
    /\ Succeeded
    /\ req.include_invoicing # "true"
    /\ req.job_number = <<>>
    /\ req.search # <<>>
    /\ req.sector # <<>>
    /\ \E i \in 1..Len(tasks) :
          /\ InInvoicingList(TaskById[tasks[i]])
          /\ MatchesSearch(TaskById[tasks[i]], req.search)
          /\ MatchesSector(TaskById[tasks[i]], req.sector)

\* C2: with limit=N for a positive integer N (40 when the parameter is omitted), a
\* success response has at most N items, total_returned is the number of items, and
\* the items are the first min(N, length) tasks of the merged pool, in its order.
C2_LimitTruncates ==
    Succeeded =>
        \A N \in (1..MaxLimit) \cup {40} :
            ((req.limit = NumberToString(N)) \/ (N = 40 /\ req.limit = <<>>)) =>
                LET merged == active \o invoicing
                    n == IF N < Len(merged) THEN N ELSE Len(merged)
                IN  /\ Len(Result.items) <= N
                    /\ Result.total_returned = Len(Result.items)
                    /\ Result.items = [i \in 1..n |-> Item(TaskById[merged[i]])]

\* a success response that leaves out tasks of both pools: limit=1 with a task in each
C2_Witness ==
    /\ Succeeded
    /\ req.limit = <<"1">>
    /\ Len(active) >= 1
    /\ Len(invoicing) >= 1
    /\ Len(Result.items) = 1

\* C3 as stated: the invoicing source is fetched, and its pool merged, whenever
\* include_invoicing is true and also whenever job_number is present, an invoicing list
\* id being configured.
C3_InvoicingFetched ==
    (/\ pc = "done"
     /\ cuRes.outcome = "ok"
     /\ env.CLICKUP_INVOICING_LIST_ID # ""
     /\ (req.include_invoicing = "true" \/ req.job_number # <<>>))
        => /\ invRes.outcome # "pending"
           /\ InPool(InvoicingCall(req, env), calls)

\* C4 as stated: whatever way the invoicing fetch fails after a successful primary
\* fetch, the response is a result envelope with invoicing_count = 0 whose items are
\* the truncated active pool.
C4_InvoicingFailureDegrades ==
    (/\ pc = "done"
     /\ cuRes.outcome = "ok"
     /\ invRes.outcome \in {"notok", "thrown"})
        => /\ Succeeded
           /\ Result.invoicing_count = 0
           /\ Result.items =
                 [i \in 1..Min(limit(req), Len(active)) |-> Item(TaskById[active[i]])]

\* C5: when the primary fetch answers with a non-2xx status, the one response is the
\* error envelope carrying that status and the upstream body as details; there are no
\* items, the primary fetch is the only upstream request and no invoicing fetch is made.
C5_PrimaryFailurePropagates ==
    cuRes.outcome = "notok" =>
        /\ pc = "done"
        /\ responses = <<[status |-> cuRes.status,
                          body |-> [error |-> "ClickUp error", details |-> cuRes.text]]>>
        /\ calls = <<PrimaryCall(req, env)>>
        /\ invRes.outcome = "pending"

\* the primary fetch of a request that asks for invoicing, which is configured, fails
C5_Witness ==
    /\ cuRes.outcome = "notok"
    /\ cuRes.status = 401
    /\ req.include_invoicing = "true"
    /\ env.CLICKUP_INVOICING_LIST_ID # ""

IsResultBody(b) ==
    DOMAIN b = {"items", "total_returned", "active_count", "invoicing_count",
                "invoicing_included"}

IsErrorBody(b) == DOMAIN b \in {{"error"}, {"error", "details"}}

\* C6: a request ends with exactly one response, a full result envelope or an error
\* envelope with an error status, and an error thrown at any step is answered with the
\* generic 500 "Server error" envelope.
C6_ExactlyOneResponse ==
    /\ Len(responses) <= 1
    /\ (pc = "done") <=> (Len(responses) = 1)
    /\ pc = "done" =>
          \/ IsResultBody(responses[1].body) /\ responses[1].status = 200
          \/ IsErrorBody(responses[1].body) /\ responses[1].status >= 400
    /\ \A r \in {cuRes, invRes} :
          r.outcome = "thrown" =>
              /\ pc = "done"
              /\ responses = <<[status |-> 500,
                                body |-> [error |-> "Server error", details |-> r.text]]>>

\* the invoicing fetch threw after the active pool had been computed
C6_Witness ==
    /\ pc = "done"
    /\ invRes.outcome = "thrown"
    /\ Len(active) >= 1
    /\ Len(responses) = 1

\* C7: when job_number is absent, a fetched task is in the starting set of the active
\* pool exactly when its list name equals a catalog entry up to case; a task with
\* another list name or with no list is not.
C7_CatalogClassifies ==
    (cuRes.outcome = "ok" /\ req.job_number = <<>>) =>
        /\ \A i \in 1..Len(tasks) :
              InPool(tasks[i], starting) <=> InCatalog(TaskById[tasks[i]])
        /\ \A i \in 1..Len(starting) : InPool(starting[i], tasks)

\* the fetch returned a task whose list name is a catalog entry in another case, and a
\* task whose list name only starts like one
C7_Witness ==
    /\ cuRes.outcome = "ok"
    /\ req.job_number = <<>>
    /\ \E i \in 1..Len(tasks) :
          LET t == TaskById[tasks[i]]
          IN  InCatalog(t) /\ ~ArrayIncludes(ACTIVE_LISTS, t.list.name)
    /\ \E i \in 1..Len(tasks) :
          LET t == TaskById[tasks[i]]
          IN  t.list.has /\ ~InCatalog(t)
    /\ Len(starting) = 1

\* C8: when job_number is supplied the catalog is bypassed: the starting set is all the
\* fetched tasks, and every fetched task that satisfies the job-number matcher and the
\* other supplied filters is in the active pool, whatever its list.
C8_JobNumberBypassesCatalog ==
    (cuRes.outcome = "ok" /\ req.job_number # <<>>) =>
        /\ starting = tasks
        /\ \A i \in 1..Len(tasks) :
              LET t == TaskById[tasks[i]]
              IN  (/\ matchesJobNumber(t, req.job_number)
                   /\ req.search # <<>> => MatchesSearch(t, req.search)
                   /\ req.sector # <<>> => MatchesSector(t, req.sector))
                      => InPool(tasks[i], active)

\* a task outside the catalog, with a plain Job Number field, is returned for its job
\* number
C8_Witness ==
    /\ Succeeded
    /\ req.job_number = <<"4", "8", "2", "1">>
    /\ \E i \in 1..Len(Result.items) :
          LET t == ItemTask(i)
          IN  /\ ~InCatalog(t)
              /\ \E k \in 1..Len(t.custom_fields) :
                    /\ t.custom_fields[k].value = StringValue(<<"4", "8", "2", "1">>)
                    /\ EqIgnoreCase(t.custom_fields[k].name,
                                    <<"j", "o", "b", " ", "n", "u", "m", "b", "e", "r">>)

\* the strings a custom-field value is normalized to: the label and the name of a
\* structured value, the string form of a plain one
NormalizedValues(v) ==
    CASE v.kind = "object" -> {v.label, v.name} \ {<<>>}
      [] v.kind = "string" -> {v.s}
      [] v.kind = "number" -> {NumberToString(v.n)}
      [] OTHER -> {}

\* C9: matchesJobNumber is true exactly when the job number occurs, up to case, in the
\* task name, or in the description, or in the normalized value of a custom field whose
\* name contains "job number" up to case.
C9_JobNumberMatcher ==
    match.pc = "returned" =>
        LET t == match.task
            j == match.jobNumber
        IN  match.result <=>
               \/ ContainsIgnoreCase(t.name, j)
               \/ ContainsIgnoreCase(t.text_content, j)
               \/ \E k \in 1..Len(t.custom_fields) :
                     /\ ContainsIgnoreCase(t.custom_fields[k].name,
                                           <<"j", "o", "b", " ", "n", "u", "m", "b", "e", "r">>)
                     /\ \E x \in NormalizedValues(t.custom_fields[k].value) :
                           ContainsIgnoreCase(x, j)

\* the matcher returned true for a task matched only by the name sub-field of a
\* structured value
C9_Witness ==
    /\ match.pc = "returned"
    /\ match.result
    /\ ~ContainsIgnoreCase(match.task.name, match.jobNumber)
    /\ ~ContainsIgnoreCase(match.task.text_content, match.jobNumber)
    /\ Len(match.task.custom_fields) = 1
    /\ match.task.custom_fields[1].value.kind = "object"
    /\ match.task.custom_fields[1].value.label = <<>>

\* no task of the pool comes after a task created earlier; a task without a timestamp
\* comes after every task with one
NewestFirst(pool) ==
    \A i, j \in 1..Len(pool) :
        LET a == TaskById[pool[i]]
            b == TaskById[pool[j]]
        IN  /\ a.date_created > b.date_created => i < j
            /\ (a.date_created # 0 /\ b.date_created = 0) => i < j

\* C10: in each pool of a success response a task precedes every task created before
\* it, and a task without a creation timestamp follows every task that has one.
C10_PoolsNewestFirst ==
    Succeeded =>
        /\ NewestFirst(active)
        /\ NewestFirst(invoicing)
        /\ LET ids == [i \in 1..Len(Result.items) |-> Result.items[i].id]
               n == Min(Len(ids), Result.active_count)
           IN  /\ NewestFirst(SubSeq(ids, 1, n))
               /\ NewestFirst(SubSeq(ids, n + 1, Len(ids)))

\* both pools were fetched oldest first, a task without a timestamp ahead of one with,
\* and both tasks of each pool are in the response
C10_Witness ==
    /\ Succeeded
    /\ Len(tasks) = 2 /\ Len(active) = 2
    /\ TaskById[tasks[1]].date_created = 0
    /\ TaskById[tasks[2]].date_created > 0
    /\ Len(invRes.tasks) = 2 /\ Len(invoicing) = 2
    /\ TaskById[invRes.tasks[1]].date_created = 0
    /\ TaskById[invRes.tasks[2]].date_created > 0
    /\ Len(Result.items) = 4

\* the ids of the result items, in order
ItemIds == [i \in 1..Len(Result.items) |-> Result.items[i].id]

\* the invoicing source was queried for this request
InvoicingQueried == invRes.outcome # "pending"

\* C11: when invoicing is included the items are the start of the active pool followed
\* by the invoicing pool, nothing removed (a task in both pools appears twice), so every
\* active item precedes every invoicing item; active_count and invoicing_count are the
\* pool sizes before truncation and total_returned = min(limit, active_count +
\* invoicing_count); when invoicing is not included the items come from the active pool
\* alone.
C11_MergeIsConcatenation ==
    Succeeded =>
        /\ Result.active_count = Len(active)
        /\ Result.invoicing_count = Len(invoicing)
        /\ \A N \in (0..MaxLimit) \cup {40} :
              ((req.limit = NumberToString(N)) \/ (N = 40 /\ req.limit = <<>>)) =>
                  Result.total_returned =
                      Min(N, Result.active_count + Result.invoicing_count)
        /\ \A i \in 1..Len(ItemIds) :
              IF i <= Len(active) THEN ItemIds[i] = active[i]
              ELSE /\ InvoicingQueried
                   /\ ItemIds[i] = invoicing[i - Len(active)]
        /\ ~InvoicingQueried => Len(ItemIds) <= Len(active)

\* the same task is in both pools and appears twice in the items
C11_Witness ==
    /\ Succeeded
    /\ InvoicingQueried
    /\ \E i, j \in 1..Len(ItemIds) :
          /\ i <= Len(active)
          /\ j > Len(active)
          /\ ItemIds[i] = ItemIds[j]

\* C12: a request met with no API token, or with no list_id and no workspace id, is
\* answered at once with the fixed 500 envelope of that error and no upstream request
\* is issued for it; with a list_id, a missing workspace id is not an error and the
\* list-scoped fetch is issued.
C12_ConfigurationErrorFailsFast ==
    pc # "idle" =>
        /\ env.CLICKUP_API_TOKEN = "" =>
              /\ pc = "done"
              /\ calls = <<>>
              /\ responses = <<[status |-> 500,
                                body |-> [error |-> "CLICKUP_API_TOKEN not set"]]>>
        /\ (env.CLICKUP_API_TOKEN # "" /\ req.list_id = ""
               /\ env.CLICKUP_WORKSPACE_ID = "") =>
              /\ pc = "done"
              /\ calls = <<>>
              /\ responses = <<[status |-> 500,
                                body |-> [error |-> "CLICKUP_WORKSPACE_ID not set"]]>>
        /\ (env.CLICKUP_API_TOKEN # "" /\ req.list_id # ""
               /\ env.CLICKUP_WORKSPACE_ID = "") =>
              /\ Len(calls) >= 1
              /\ calls[1].scope = "list"
              /\ calls[1].id = req.list_id
              /\ \A i \in 1..Len(responses) :
                    responses[i].body # [error |-> "CLICKUP_WORKSPACE_ID not set"]

\* a request without list_id is answered 500 for the missing workspace id, no upstream
\* request having been issued
C12_Witness ==
    /\ pc = "done"
    /\ env.CLICKUP_API_TOKEN # ""
    /\ env.CLICKUP_WORKSPACE_ID = ""
    /\ req.list_id = ""
    /\ req.job_number # <<>>
    /\ calls = <<>>
    /\ Len(responses) = 1
    /\ responses[1].status = 500

\* the invoicing pool of the request has been computed
InvoicingPoolComputed == pc = "done" /\ invRes.outcome = "ok"

\* C14: every task of the invoicing pool satisfies each local filter the request
\* supplies, by the predicates the active pool is filtered with: the search term, the
\* sector and the job number.
C14_InvoicingPoolFiltered ==
    InvoicingPoolComputed =>
        \A i \in 1..Len(invoicing) :
            /\ req.search # <<>> => MatchesSearch(TaskById[invoicing[i]], req.search)
            /\ req.sector # <<>> => MatchesSector(TaskById[invoicing[i]], req.sector)
            /\ req.job_number # <<>> =>
                  matchesJobNumber(TaskById[invoicing[i]], req.job_number)

\* the text a custom field offers to the search: its value as a string, or its name
\* when it has no value
FieldSearchText(cf) == IF Truthy(cf.value) THEN ValueToString(cf.value) ELSE cf.name

\* the search term occurs, up to case, in the name, the description or a custom field
SatisfiesSearch(t, term) ==
    \/ ContainsIgnoreCase(t.name, term)
    \/ ContainsIgnoreCase(t.text_content, term)
    \/ \E k \in 1..Len(t.custom_fields) :
          ContainsIgnoreCase(FieldSearchText(t.custom_fields[k]), term)

\* a custom field named like "sector" has a value containing the term, up to case
SatisfiesSector(t, term) ==
    \E k \in 1..Len(t.custom_fields) :
        /\ ContainsIgnoreCase(t.custom_fields[k].name, <<"s", "e", "c", "t", "o", "r">>)
        /\ Truthy(t.custom_fields[k].value)
        /\ ContainsIgnoreCase(ValueToString(t.custom_fields[k].value), term)

\* for each search term, sector and job number a request can carry, the tasks that
\* satisfy it
SearchMatches ==
    [term \in {q.search : q \in Queries} \ {<<>>} |->
        {id \in TaskIds : SatisfiesSearch(TaskById[id], term)}]

SectorMatches ==
    [term \in {q.sector : q \in Queries} \ {<<>>} |->
        {id \in TaskIds : SatisfiesSector(TaskById[id], term)}]

JobNumberMatches ==
    [term \in {q.job_number : q \in Queries} \ {<<>>} |->
        {id \in TaskIds : matchesJobNumber(TaskById[id], term)}]

\* the task satisfies every filter the request supplies
SatisfiesSupplied(id, q) ==
    /\ q.search # <<>> => id \in SearchMatches[q.search]
    /\ q.sector # <<>> => id \in SectorMatches[q.sector]
    /\ q.job_number # <<>> => id \in JobNumberMatches[q.job_number]

\* C15: a candidate of the starting set is in the final active pool if and only if it
\* satisfies every supplied filter among search (case-insensitive substring of the name,
\* the description, or a custom field's value as a string, its name when it has no
\* value), sector (a field named like "sector" whose value contains the term, up to
\* case) and job_number; an absent filter removes nothing, and applying the filters in
\* another order selects the same tasks (compared when the pool has just been computed).
C15_FiltersConjunctive ==
    (pc \in {"invoicing", "done"} /\ cuRes.outcome = "ok") =>
        /\ \A i \in 1..Len(active) : InPool(active[i], starting)
        /\ \A i \in 1..Len(starting) :
              InPool(starting[i], active) <=> SatisfiesSupplied(starting[i], req)
        /\ (req.search = <<>> /\ req.sector = <<>> /\ req.job_number = <<>>) =>
              Len(active) = Len(starting)
        /\ invRes.outcome = "pending" =>
              /\ Range(active) =
                    Range(SearchFilter(SectorFilter(JobNumberFilter(starting, req), req), req))
              /\ Range(active) =
                    Range(SectorFilter(JobNumberFilter(SearchFilter(starting, req), req), req))

\* all three filters are supplied; one candidate satisfies them all and is kept, another
\* fails only the sector filter and is dropped
C15_Witness ==
    /\ Succeeded
    /\ req.search # <<>>
    /\ req.sector # <<>>
    /\ req.job_number # <<>>
    /\ Len(active) = 1
    /\ \E i \in 1..Len(starting) :
          /\ ~InPool(starting[i], active)
          /\ SatisfiesSearch(TaskById[starting[i]], req.search)
          /\ matchesJobNumber(TaskById[starting[i]], req.job_number)
          /\ ~SatisfiesSector(TaskById[starting[i]], req.sector)

\* C16: every upstream request of a list-tasks request, the list-scoped or workspace-wide
\* primary fetch and the invoicing fetch alike, carries the caller's search as its search
\* term when search is present, else the job number as a string when job_number is
\* present, else no search term; the job number is never sent when search is present.
C16_UpstreamSearchTerm ==
    \A i \in 1..Len(calls) :
        /\ req.search # <<>> => calls[i].search = req.search
        /\ (req.search = <<>> /\ req.job_number # <<>>) => calls[i].search = req.job_number
        /\ (req.search = <<>> /\ req.job_number = <<>>) => calls[i].search = <<>>

\* a workspace-wide primary fetch and an invoicing fetch were both sent with the job
\* number as their search term, no search having been given
C16_Witness ==
    /\ Len(calls) = 2
    /\ calls[1].scope = "team"
    /\ calls[2].id = InvoicingListId
    /\ req.search = <<>>
    /\ req.job_number # <<>>
    /\ calls[1].search = req.job_number
    /\ calls[2].search = req.job_number

\* the upstream requests issued for the request and not answered yet
InFlight ==
    Len(calls) - (IF cuRes.outcome # "pending" THEN 1 ELSE 0)
               - (IF invRes.outcome # "pending" THEN 1 ELSE 0)

\* C17: the upstream requests of one request are sequential and unrepeated: at most two
\* are issued, the primary first and once, the invoicing one once and only after the
\* primary fetch has completed successfully and the active pool has been filtered and
\* sorted, and at no time are two of them in flight.
C17_SequentialFetches ==
    /\ Len(calls) <= 2
    /\ InFlight \in {0, 1}
    /\ cuRes.outcome = "pending" => invRes.outcome = "pending"
    /\ Len(calls) >= 1 => calls[1] = PrimaryCall(req, env)
    /\ Len(calls) = 2 =>
          /\ calls[2] = InvoicingCall(req, env)
          /\ calls[2] # calls[1]
          /\ cuRes.outcome = "ok"
          /\ InFlight = 1 =>
                /\ NewestFirst(active)
                /\ \A i \in 1..Len(starting) :
                      InPool(starting[i], active) <=> SatisfiesSupplied(starting[i], req)

\* the invoicing fetch is in flight, the primary fetch having returned two tasks of which
\* the filters kept one
C17_Witness ==
    /\ pc = "invoicing"
    /\ Len(calls) = 2
    /\ InFlight = 1
    /\ Len(starting) = 2
    /\ Len(active) = 1

\* the position of a task in an array that holds it
IndexOf(id, arr) == CHOOSE i \in 1..Len(arr) : arr[i] = id

\* tasks of the pool with equal timestamps are in the order they have in the array the
\* upstream returned
KeepsUpstreamOrder(pool, fetched) ==
    \A i, j \in 1..Len(pool) :
        (i < j /\ TaskById[pool[i]].date_created = TaskById[pool[j]].date_created)
            => IndexOf(pool[i], fetched) < IndexOf(pool[j], fetched)

\* C18: sorting is stable: two tasks of the same pool with equal creation timestamps,
\* both missing included, appear in the response in the relative order in which the
\* upstream returned them.
C18_SortIsStable ==
    Succeeded =>
        /\ KeepsUpstreamOrder(active, tasks)
        /\ invRes.outcome = "ok" => KeepsUpstreamOrder(invoicing, invRes.tasks)
        /\ \A i, j \in 1..Len(ItemIds) :
              (/\ i < j
               /\ (j <= Len(active) \/ i > Len(active))
               /\ ItemTask(i).date_created = ItemTask(j).date_created)
                  => LET fetched == IF j <= Len(active) THEN tasks ELSE invRes.tasks
                     IN  IndexOf(ItemIds[i], fetched) < IndexOf(ItemIds[j], fetched)

\* two tasks without a timestamp are both returned, the one the upstream returned first
\* coming first though it has the larger id
C18_Witness ==
    /\ Succeeded
    /\ Len(ItemIds) = 2
    /\ Len(active) = 2
    /\ ItemTask(1).date_created = 0
    /\ ItemTask(2).date_created = 0
    /\ ItemIds[1] > ItemIds[2]
    /\ tasks = <<ItemIds[1], ItemIds[2]>>

\* C19: invoicing_included is true exactly when the invoicing source was queried for the
\* request and its pool merged into the result; and whenever it is false,
\* invoicing_count is 0 and every item is a task of the active pool.
C19_IncludedIffQueried ==
    Succeeded =>
        /\ Result.invoicing_included <=>
              (/\ InvoicingQueried
               /\ \E i \in 1..Len(calls) : calls[i] = InvoicingCall(req, env)
               /\ ItemIds = Slice(active \o invoicing, Len(ItemIds)))
        /\ ~Result.invoicing_included =>
              /\ Result.invoicing_count = 0
              /\ \A i \in 1..Len(ItemIds) : i <= Len(active) /\ ItemIds[i] = active[i]

\* C20: with a bearer token configured, a request to a path other than /health whose
\* Authorization header is not exactly "Bearer <token>" is answered 401 Unauthorized and
\* reaches no handler, so no upstream request is issued for it; /health is never refused;
\* and with no bearer token configured no request is refused.
C20_UnauthorizedIsRefused ==
    http.stage # "none" =>
        /\ (/\ MCP_BEARER # <<>>
            /\ http.path # "/health"
            /\ http.authorization # <<"B", "e", "a", "r", "e", "r", " ">> \o MCP_BEARER) =>
              /\ http.stage = "answered"
              /\ http.res = <<[status |-> 401, body |-> [error |-> "Unauthorized"]]>>
              /\ pc = "idle"
              /\ calls = <<>>
              /\ responses = <<>>
        /\ (http.path = "/health" \/ MCP_BEARER = <<>>) =>
              /\ \A i \in 1..Len(http.res) : http.res[i].status # 401
              /\ http.stage = "answered" =>
                    http.res = <<[status |-> 200,
                                  body |-> IF http.path = "/health" THEN [ok |-> TRUE]
                                           ELSE [tools |-> <<"clickup_list_tasks",
                                                             "clickup_get_task">>]]>>

\* a list-tasks request carrying the configured token behind a lowercase scheme has been
\* answered 401 and has caused no upstream request
C20_Witness ==
    /\ MCP_BEARER # <<>>
    /\ http.stage = "answered"
    /\ http.path = "/tools/clickup_list_tasks"
    /\ http.authorization = <<"b", "e", "a", "r", "e", "r", " ">> \o MCP_BEARER
    /\ http.res[1].status = 401
    /\ env.CLICKUP_API_TOKEN # ""
    /\ calls = <<>>

=============================================================================
